---- MODULE Spec2Model ----
(***************************************************************************)
(* State-machine model of lambda_function.py: one invocation of            *)
(* lambda_handler, which fetches recent log events from the log store,     *)
(* classifies them by keyword, publishes two metric points and wraps the   *)
(* outcome in a response envelope.                                         *)
(***************************************************************************)
EXTENDS Integers, Sequences, FiniteSets, TLC

(* Largest number of events the modelled log store hands back for one query. *)
MaxEvents == 31

(* limit=50 of filter_log_events: the store returns at most this many events. *)
limit == 50

(* all_logs[-30:] keeps this many trailing entries. *)
TruncateLast == 30

(* ---------------------------------------------------------------- strings *)

(* The characters of the string literals the model uses (keywords of       *)
(* analyze_logs_simple, and the messages the modelled store returns).      *)
Chars(s) ==
  CASE s = "error" -> <<"e", "r", "r", "o", "r">>
    [] s = "exception" -> <<"e", "x", "c", "e", "p", "t", "i", "o", "n">>
    [] s = "failed" -> <<"f", "a", "i", "l", "e", "d">>
    [] s = "critical" -> <<"c", "r", "i", "t", "i", "c", "a", "l">>
    [] s = "warning" -> <<"w", "a", "r", "n", "i", "n", "g">>
    [] s = "warn" -> <<"w", "a", "r", "n">>
    [] s = "deprecated" -> <<"d", "e", "p", "r", "e", "c", "a", "t", "e", "d">>
    [] s = "Error" -> <<"E", "r", "r", "o", "r">>
    [] s = "WARN" -> <<"W", "A", "R", "N">>
    [] s = "Failed: warning" ->
         <<"F", "a", "i", "l", "e", "d", ":", " ", "w", "a", "r", "n", "i", "n", "g">>
    [] s = "ok" -> <<"o", "k">>

UpperCase ==
  <<"A", "B", "C", "D", "E", "F", "G", "H", "I", "J", "K", "L", "M",
    "N", "O", "P", "Q", "R", "S", "T", "U", "V", "W", "X", "Y", "Z">>

LowerCase ==
  <<"a", "b", "c", "d", "e", "f", "g", "h", "i", "j", "k", "l", "m",
    "n", "o", "p", "q", "r", "s", "t", "u", "v", "w", "x", "y", "z">>

(* The lower-case letter of each upper-case letter. *)
ToLower ==
  [c \in { UpperCase[k] : k \in 1..Len(UpperCase) } |->
     LowerCase[CHOOSE k \in 1..Len(UpperCase) : UpperCase[k] = c]]

(* str.lower() on a character sequence. *)
str_lower(cs) ==
  [i \in 1..Len(cs) |-> IF cs[i] \in DOMAIN ToLower THEN ToLower[cs[i]] ELSE cs[i]]

(* `word in message` on character sequences: substring containment. *)
str_contains(word, message) ==
  \E i \in 1..(Len(message) - Len(word) + 1) :
     SubSeq(message, i, i + Len(word) - 1) = word

(* ------------------------------------------------------------ environment *)

(* The configured log groups of fetch_recent_logs. *)
log_groups == <<"/aws/lambda/ai-infra-monitor">>

(* The kinds of event the modelled store returns.  A well-formed event     *)
(* carries a str message; "none" has message None; "nomsg" lacks the       *)
(* 'message' key.                                                          *)
EventKinds == {"Error", "WARN", "Failed: warning", "ok", "none", "nomsg"}

PyStr(s) == [type |-> "str", value |-> s]

PyNone == [type |-> "NoneType", value |-> "None"]

StoreEvent(kind, ts) ==
  IF kind = "nomsg" THEN [timestamp |-> ts]
  ELSE IF kind = "none" THEN [timestamp |-> ts, message |-> PyNone]
  ELSE [timestamp |-> ts, message |-> PyStr(kind)]

(* Event sequences of the store: n1 events of one kind followed by n2 of   *)
(* another, timestamps ascending, never more than the query's limit.       *)
EventSeqs ==
  LET cap == IF MaxEvents < limit THEN MaxEvents ELSE limit IN
  { [i \in 1..(n[1] + n[2]) |-> StoreEvent(IF i <= n[1] THEN k[1] ELSE k[2], i)] :
      k \in EventKinds \X EventKinds,
      n \in { m \in (0..cap) \X (0..cap) : m[1] + m[2] <= cap } }

(* What filter_log_events does for one log group: raise, or hand back a    *)
(* response dict with or without an 'events' key.                          *)
QueryOutcomes ==
  { [raises |-> TRUE, response |-> [ResponseMetadata |-> "ok"]] }
  \cup { [raises |-> FALSE, response |-> [ResponseMetadata |-> "ok"]] }
  \cup { [raises |-> FALSE, response |-> [ResponseMetadata |-> "ok", events |-> es]] :
           es \in EventSeqs }

LogGroupSet == { log_groups[i] : i \in 1..Len(log_groups) }

(* ------------------------------------------------------ fetch_recent_logs *)

(* The inner for loop of fetch_recent_logs over one response's events:     *)
(* appends an entry per event until an event lacks a key (KeyError).       *)
RECURSIVE AppendEvents(_, _, _, _)
AppendEvents(all_logs, events, i, log_group) ==
  IF i > Len(events) THEN [all_logs |-> all_logs, raised |-> FALSE]
  ELSE IF ~({"timestamp", "message"} \subseteq DOMAIN events[i])
    THEN [all_logs |-> all_logs, raised |-> TRUE]
  ELSE AppendEvents(
         Append(all_logs, [timestamp |-> events[i].timestamp,
                           message |-> events[i].message,
                           log_group |-> log_group]),
         events, i + 1, log_group)

(* One iteration of `for log_group in log_groups` with its try/except.     *)
FetchGroup(all_logs, outcome, log_group) ==
  IF outcome.raises THEN [all_logs |-> all_logs, raised |-> TRUE]
  ELSE LET events == IF "events" \in DOMAIN outcome.response
                       THEN outcome.response.events ELSE << >>
       IN AppendEvents(all_logs, events, 1, log_group)

RECURSIVE FetchLoop(_, _, _, _)
FetchLoop(store, g, all_logs, failed) ==
  IF g > Len(log_groups) THEN [all_logs |-> all_logs, failed |-> failed]
  ELSE LET r == FetchGroup(all_logs, store[log_groups[g]], log_groups[g]) IN
       FetchLoop(store, g + 1, r.all_logs,
                 IF r.raised THEN Append(failed, log_groups[g]) ELSE failed)

(* Faulty variant of LastSlice: seq[:n], the leading entries instead of the trailing. *)
LastSlice_first(seq, n) ==
  SubSeq(seq, 1, IF Len(seq) > n THEN n ELSE Len(seq))

(* seq[-n:] of Python. *)
LastSlice(seq, n) ==
  SubSeq(seq, (IF Len(seq) > n THEN Len(seq) - n ELSE 0) + 1, Len(seq))

(* Faulty variant of fetch_recent_logs: no try/except around a log group's        *)
(* handling nor around the body, so a failure leaves the function.         *)
fetch_recent_logs_unguarded(e) ==
  IF ~e.clock_ok
    THEN [result |-> << >>, all_logs |-> << >>, failed |-> << >>,
          outer_caught |-> FALSE, escaped |-> TRUE]
  ELSE LET r == FetchLoop(e.store, 1, << >>, << >>) IN
       [result |-> LastSlice(r.all_logs, TruncateLast), all_logs |-> r.all_logs,
        failed |-> r.failed, outer_caught |-> FALSE, escaped |-> r.failed # << >>]

(* fetch_recent_logs(): what it returns, with the list it built and the    *)
(* log groups whose handling raised.  escaped is whether an exception      *)
(* leaves the function.                                                    *)
fetch_recent_logs(e) ==
  IF ~e.clock_ok
    THEN [result |-> << >>, all_logs |-> << >>, failed |-> << >>,
          outer_caught |-> TRUE, escaped |-> FALSE]
  ELSE LET r == FetchLoop(e.store, 1, << >>, << >>) IN
       [result |-> LastSlice(r.all_logs, TruncateLast), all_logs |-> r.all_logs,
        failed |-> r.failed, outer_caught |-> FALSE, escaped |-> FALSE]

(* ---------------------------------------------------- analyze_logs_simple *)

error_words == <<"error", "exception", "failed", "critical">>

warning_words == <<"warning", "warn", "deprecated">>

(* any(word in message for word in words) *)
any_word_in(words, message) ==
  \E w \in 1..Len(words) : str_contains(Chars(words[w]), message)

(* Faulty variant of Classify: `if` in place of `elif`, so a message with both    *)
(* kinds of keyword is counted twice.                                      *)
Classify_if_if(message) ==
  [error |-> IF any_word_in(error_words, message) THEN 1 ELSE 0,
   warning |-> IF any_word_in(warning_words, message) THEN 1 ELSE 0]

(* The if/elif of the counting loop for one lower-cased message: what it   *)
(* adds to error_count and to warning_count.                               *)
Classify(message) ==
  IF any_word_in(error_words, message) THEN [error |-> 1, warning |-> 0]
  ELSE IF any_word_in(warning_words, message) THEN [error |-> 0, warning |-> 1]
  ELSE [error |-> 0, warning |-> 0]

(* The counting loop.  log['message'].lower() raises AttributeError on a   *)
(* message that is not a str, and the loop ends there.                     *)
RECURSIVE CountLoop(_, _, _, _)
CountLoop(data, i, error_count, warning_count) ==
  IF i > Len(data)
    THEN [raised |-> FALSE, exc |-> << >>,
          error_count |-> error_count, warning_count |-> warning_count]
  ELSE IF data[i].message.type # "str"
    THEN [raised |-> TRUE,
          exc |-> <<"'", data[i].message.type, "' object has no attribute 'lower'">>,
          error_count |-> error_count, warning_count |-> warning_count]
  ELSE LET c == Classify(str_lower(Chars(data[i].message.value))) IN
       CountLoop(data, i + 1, error_count + c.error, warning_count + c.warning)

(* Faulty variant of DetermineSeverity: the medium test placed before the high    *)
(* test.                                                                   *)
DetermineSeverity_medium_first(error_count, warning_count) ==
  IF error_count > 2
    THEN [severity |-> "medium",
          issues |-> << <<"Moderate error count: ", error_count, " errors">> >>]
  ELSE IF error_count > 5
    THEN [severity |-> "high",
          issues |-> << <<"High error count detected: ", error_count, " errors">> >>]
  ELSE IF warning_count > 10
    THEN [severity |-> "medium",
          issues |-> << <<"Many warnings detected: ", warning_count, " warnings">> >>]
  ELSE [severity |-> "low", issues |-> << >>]

(* Faulty variant of DetermineSeverity: the warning branch sets the severity and   *)
(* appends no issue.                                                       *)
DetermineSeverity_silent_warnings(error_count, warning_count) ==
  IF error_count > 5
    THEN [severity |-> "high",
          issues |-> << <<"High error count detected: ", error_count, " errors">> >>]
  ELSE IF error_count > 2
    THEN [severity |-> "medium",
          issues |-> << <<"Moderate error count: ", error_count, " errors">> >>]
  ELSE IF warning_count > 10
    THEN [severity |-> "medium", issues |-> << >>]
  ELSE [severity |-> "low", issues |-> << >>]

(* "Determine severity": the severity and the issues list. *)
DetermineSeverity(error_count, warning_count) ==
  IF error_count > 5
    THEN [severity |-> "high",
          issues |-> << <<"High error count detected: ", error_count, " errors">> >>]
  ELSE IF error_count > 2
    THEN [severity |-> "medium",
          issues |-> << <<"Moderate error count: ", error_count, " errors">> >>]
  ELSE IF warning_count > 10
    THEN [severity |-> "medium",
          issues |-> << <<"Many warnings detected: ", warning_count, " warnings">> >>]
  ELSE [severity |-> "low", issues |-> << >>]

(* Faulty variant of Recommendations: warning_count >= 5 in place of > 5. *)
Recommendations_ge(error_count, warning_count) ==
  LET r1 == IF error_count > 0
              THEN <<"Review error logs for root cause analysis">> ELSE << >>
      r2 == IF warning_count >= 5
              THEN Append(r1, "Address warning conditions to prevent issues") ELSE r1
  IN IF r2 = << >>
       THEN <<"Continue monitoring - system appears stable">> ELSE r2

(* The recommendations list. *)
Recommendations(error_count, warning_count) ==
  LET r1 == IF error_count > 0
              THEN <<"Review error logs for root cause analysis">> ELSE << >>
      r2 == IF warning_count > 5
              THEN Append(r1, "Address warning conditions to prevent issues") ELSE r1
  IN IF r2 = << >>
       THEN <<"Continue monitoring - system appears stable">> ELSE r2

(* analyze_logs_simple(log_data): the dict it returns, or the exception it *)
(* raises; error_count and warning_count are its locals.                   *)
analyze_logs_simple(data) ==
  LET c == CountLoop(data, 1, 0, 0)
      s == DetermineSeverity(c.error_count, c.warning_count)
  IN [raised |-> c.raised, exc |-> c.exc,
      error_count |-> c.error_count, warning_count |-> c.warning_count,
      result |->
        IF c.raised THEN [severity |-> "unset"]
        ELSE [severity |-> s.severity,
              issues_found |-> s.issues,
              recommendations |-> Recommendations(c.error_count, c.warning_count),
              summary |-> <<"Analyzed ", Len(data), " logs: ", c.error_count,
                            " errors, ", c.warning_count, " warnings">>]]

(* ---------------------------------------------------------- store_metrics *)

severity_map == [low |-> 1, medium |-> 2, high |-> 3, critical |-> 4]

(* dict.get(key, default) on a record. *)
dict_get(d, key, default) == IF key \in DOMAIN d THEN d[key] ELSE default

(* The MetricData batch store_metrics hands to put_metric_data. *)
MetricBatch(analysis) ==
  LET severity_value == dict_get(severity_map, dict_get(analysis, "severity", "low"), 1)
      issues_count == Len(dict_get(analysis, "issues_found", << >>))
  IN [Namespace |-> "Infrastructure/AI-Monitor",
      MetricData |->
        << [MetricName |-> "SeverityLevel", Value |-> severity_value, Unit |-> "None"],
           [MetricName |-> "IssuesFound", Value |-> issues_count, Unit |-> "Count"] >>]

(* Faulty variant of store_metrics: no try/except, so put_metric_data's exception  *)
(* leaves the function.                                                    *)
store_metrics_unguarded(analysis, put_raises) ==
  [calls |-> << [batch |-> MetricBatch(analysis), raised |-> put_raises] >>,
   caught |-> FALSE,
   escaped |-> put_raises]

(* Faulty variant of store_metrics: a failed put_metric_data is tried once more. *)
store_metrics_retrying(analysis, put_raises) ==
  [calls |-> IF put_raises
               THEN << [batch |-> MetricBatch(analysis), raised |-> TRUE],
                       [batch |-> MetricBatch(analysis), raised |-> TRUE] >>
               ELSE << [batch |-> MetricBatch(analysis), raised |-> FALSE] >>,
   caught |-> put_raises,
   escaped |-> FALSE]

(* store_metrics(analysis): the put_metric_data calls it makes (one),      *)
(* whether that call's exception was caught by its except, and whether an  *)
(* exception leaves the function.                                          *)
store_metrics(analysis, put_raises) ==
  [calls |-> << [batch |-> MetricBatch(analysis), raised |-> put_raises] >>,
   caught |-> put_raises,
   escaped |-> FALSE]

(* -------------------------------------------------------- create_response *)

(* A Python value handed to create_response: a dict or a str (a str is the *)
(* sequence of its literal and formatted pieces).                          *)
PyDict(d) == [type |-> "dict", value |-> d]

PyText(pieces) == [type |-> "str", value |-> pieces]

(* json.dumps: the JSON text of a dict, kept as its tagged content. *)
json_dumps(d) == [encoding |-> "json", content |-> d]

(* str(body) of a str: the same text. *)
str_of(pieces) == [encoding |-> "text", content |-> pieces]

create_response(status_code, body) ==
  [statusCode |-> status_code,
   headers |-> [ContentType |-> "application/json", AccessControlAllowOrigin |-> "*"],
   body |-> IF body.type = "dict" THEN json_dumps(body.value) ELSE str_of(body.value)]

(* ------------------------------------------------------------------ state *)

VARIABLES
  env,             \* the clock and the log store as this invocation meets them
  pc,              \* position of lambda_handler
  fetched,         \* what fetch_recent_logs did (its return value and locals)
  log_data,        \* log_data of lambda_handler
  analyzed,        \* what analyze_logs_simple did (its return value and locals)
  analysis_result, \* analysis_result of lambda_handler
  put_calls,       \* the put_metric_data calls made, each with its outcome
  exc,             \* str(e) of the exception lambda_handler's except caught
  trace,           \* the pipeline steps taken, in order
  response         \* what lambda_handler returned

vars == <<env, pc, fetched, log_data, analyzed, analysis_result, put_calls, exc,
          trace, response>>

NoFetch ==
  [result |-> << >>, all_logs |-> << >>, failed |-> << >>,
   outer_caught |-> FALSE, escaped |-> FALSE]

NoAnalysis ==
  [raised |-> FALSE, exc |-> << >>, error_count |-> 0, warning_count |-> 0,
   result |-> [severity |-> "unset"]]

NoResponse == [statusCode |-> 0]

QueryRaises == [raises |-> TRUE, response |-> [ResponseMetadata |-> "ok"]]

(* The environments of one invocation: the clock calls before the loop     *)
(* raise, or they succeed and each log group's query has some outcome.     *)
Envs ==
  { [clock_ok |-> FALSE, store |-> [g \in LogGroupSet |-> QueryRaises]] }
  \cup { [clock_ok |-> TRUE, store |-> s] : s \in [LogGroupSet -> QueryOutcomes] }

Init ==
  /\ env \in Envs
  /\ pc = "start"
  /\ fetched = NoFetch
  /\ log_data = << >>
  /\ analyzed = NoAnalysis
  /\ analysis_result = [severity |-> "unset"]
  /\ put_calls = << >>
  /\ exc = << >>
  /\ trace = << >>
  /\ response = NoResponse

(* ---------------------------------------------------------- lambda_handler *)

(* Faulty variant of HasLogs: the handler goes on whatever the fetch returned. *)
HasLogs_always(data) == TRUE

(* The test of `if not log_data`: a list is truthy when it is not empty. *)
HasLogs(data) == data # << >>

(* log_data = fetch_recent_logs(); an exception leaving the call would go  *)
(* to the handler's except.                                                *)
Fetch ==
  /\ pc = "start"
  /\ fetched' = fetch_recent_logs(env)
  /\ log_data' = fetched'.result
  /\ trace' = Append(trace, "fetch")
  /\ IF fetched'.escaped
       THEN /\ pc' = "except"
            /\ exc' = <<"fetch_recent_logs">>
       ELSE /\ pc' = "fetched"
            /\ UNCHANGED exc
  /\ UNCHANGED <<env, analyzed, analysis_result, put_calls, response>>

(* if not log_data: return create_response(200, "No recent logs to analyze") *)
EmptyExit ==
  /\ pc = "fetched"
  /\ ~HasLogs(log_data)
  /\ response' = create_response(200, PyText(<<"No recent logs to analyze">>))
  /\ trace' = Append(trace, "respond")
  /\ pc' = "done"
  /\ UNCHANGED <<env, fetched, log_data, analyzed, analysis_result, put_calls, exc>>

(* analysis_result = analyze_logs_simple(log_data) *)
Analyze ==
  /\ pc = "fetched"
  /\ HasLogs(log_data)
  /\ analyzed' = analyze_logs_simple(log_data)
  /\ trace' = Append(trace, "analyze")
  /\ IF analyzed'.raised
       THEN /\ pc' = "except"
            /\ exc' = analyzed'.exc
            /\ UNCHANGED analysis_result
       ELSE /\ pc' = "analyzed"
            /\ analysis_result' = analyzed'.result
            /\ UNCHANGED exc
  /\ UNCHANGED <<env, fetched, log_data, put_calls, response>>

(* store_metrics(analysis_result); put_metric_data succeeds or raises, and *)
(* an exception leaving store_metrics would go to the handler's except.    *)
Publish ==
  /\ pc = "analyzed"
  /\ \E put_raises \in BOOLEAN :
       LET m == store_metrics(analysis_result, put_raises) IN
       /\ put_calls' = put_calls \o m.calls
       /\ IF m.escaped
            THEN /\ pc' = "except"
                 /\ exc' = <<"put_metric_data">>
            ELSE /\ pc' = "published"
                 /\ UNCHANGED exc
  /\ trace' = Append(trace, "publish")
  /\ UNCHANGED <<env, fetched, log_data, analyzed, analysis_result, response>>

(* return create_response(200, {...}) *)
Respond ==
  /\ pc = "published"
  /\ response' = create_response(200,
                   PyDict([message |-> "Log analysis completed",
                           logs_analyzed |-> Len(log_data),
                           analysis |-> analysis_result]))
  /\ trace' = Append(trace, "respond")
  /\ pc' = "done"
  /\ UNCHANGED <<env, fetched, log_data, analyzed, analysis_result, put_calls, exc>>

(* except Exception as e: return create_response(500, f"Error: {str(e)}") *)
HandleException ==
  /\ pc = "except"
  /\ response' = create_response(500, PyText(<<"Error: ">> \o exc))
  /\ trace' = Append(trace, "respond_error")
  /\ pc' = "done"
  /\ UNCHANGED <<env, fetched, log_data, analyzed, analysis_result, put_calls, exc>>

Next ==
  \/ Fetch
  \/ EmptyExit
  \/ Analyze
  \/ Publish
  \/ Respond
  \/ HandleException

Spec == Init /\ [][Next]_vars

(* ------------------------------------------------------------- properties *)

(* analyze_logs_simple has just returned its result to the handler. *)
AnalysisDone == pc = "analyzed"

InSeq(x, seq) == \E i \in 1..Len(seq) : seq[i] = x

MetricValue(batch, name) ==
  LET i == CHOOSE j \in 1..Len(batch.MetricData) : batch.MetricData[j].MetricName = name
  IN batch.MetricData[i].Value

(* C1: when fetch_recent_logs returns no entries the handler returns 200   *)
(* with the body "No recent logs to analyze", and put_metric_data is never *)
(* called in that invocation.                                              *)
C1_EmptyFetchShortCircuits ==
  (pc # "start" /\ fetched.result = << >>) =>
     /\ put_calls = << >>
     /\ pc = "done" =>
          /\ response.statusCode = 200
          /\ response.body.encoding = "text"
          /\ response.body.content = <<"No recent logs to analyze">>

C1_Witness ==
  /\ pc = "done"
  /\ fetched.result = << >>
  /\ fetched.failed # << >>
  /\ response.statusCode = 200

(* C2: for a non-empty fetch, when put_metric_data raises the handler      *)
(* still returns 200 and the body is the one determined by the entries     *)
(* alone (logs_analyzed and analysis), as when the publish succeeds.       *)
C2_PublishFailureInvisible ==
  (pc = "done" /\ \E i \in 1..Len(put_calls) : put_calls[i].raised) =>
     /\ response.statusCode = 200
     /\ response.body.encoding = "json"
     /\ response.body.content.message = "Log analysis completed"
     /\ response.body.content.logs_analyzed = Len(log_data)
     /\ response.body.content.analysis = analyze_logs_simple(log_data).result

C2_Witness ==
  /\ pc = "done"
  /\ log_data # << >>
  /\ put_calls # << >>
  /\ put_calls[1].raised
  /\ response.statusCode = 200

(* C3: every invocation ends in a response whose status is 200 or 500; it  *)
(* is 500, with body "Error: " followed by the exception message, exactly  *)
(* when an exception was raised outside the guards of fetch_recent_logs    *)
(* and store_metrics (by analyze_logs_simple); exceptions caught by those  *)
(* guards leave the status at 200.                                         *)
C3_StatusIs500IffUnguardedException ==
  /\ pc = "except" => ENABLED HandleException
  /\ pc = "done" =>
       /\ response.statusCode \in {200, 500}
       /\ response.statusCode = 500 <=> analyzed.raised
       /\ response.statusCode = 500 =>
            /\ response.body.encoding = "text"
            /\ response.body.content = <<"Error: ">> \o analyzed.exc
       /\ (fetched.failed # << >> \/ fetched.outer_caught
             \/ \E i \in 1..Len(put_calls) : put_calls[i].raised)
            /\ ~analyzed.raised => response.statusCode = 200

C3_Witness ==
  /\ pc = "done"
  /\ response.statusCode = 500
  /\ analyzed.raised
  /\ response.body.content =
       <<"Error: ", "'", "NoneType", "' object has no attribute 'lower'">>

SeverityRank(sev) == CASE sev = "low" -> 1 [] sev = "medium" -> 2 [] sev = "high" -> 3

(* C4: the severity is the value of the decision table on (error_count,    *)
(* warning_count): > 5 errors high, else > 2 errors medium, else > 10      *)
(* warnings medium, else low; 6 errors give high whatever the warnings,    *)
(* and with the warnings fixed more errors never give a lower severity.    *)
C4_SeverityTable ==
  AnalysisDone =>
    LET e == analyzed.error_count
        w == analyzed.warning_count
        sev == analysis_result.severity
    IN /\ sev = CASE e > 5 -> "high"
                  [] e <= 5 /\ e > 2 -> "medium"
                  [] e <= 2 /\ w > 10 -> "medium"
                  [] OTHER -> "low"
       /\ e = 6 => sev = "high"
       /\ \A e2 \in e..(Len(log_data) + 1) :
            SeverityRank(DetermineSeverity(e2, w).severity) >= SeverityRank(sev)

C4_Witness ==
  /\ AnalysisDone
  /\ analyzed.error_count = 6
  /\ analyzed.warning_count > 10
  /\ analysis_result.severity = "high"

LoweredMessage(i) == str_lower(Chars(log_data[i].message.value))

ErrorEntries ==
  { i \in 1..Len(log_data) : any_word_in(error_words, LoweredMessage(i)) }

WarningEntries ==
  { i \in 1..Len(log_data) : any_word_in(warning_words, LoweredMessage(i)) }

(* C5: every entry is counted in exactly one of error, warning, neutral:   *)
(* error_count is the number of entries with an error keyword,             *)
(* warning_count the number with a warning keyword and no error keyword,   *)
(* and with the neutral entries they add up to the number of entries.      *)
C5_CountsPartitionEntries ==
  AnalysisDone =>
    LET errors == ErrorEntries
        warnings == WarningEntries
        neutral_count == Cardinality((1..Len(log_data)) \ (errors \cup warnings))
    IN /\ analyzed.error_count = Cardinality(errors)
       /\ analyzed.warning_count = Cardinality(warnings \ errors)
       /\ analyzed.error_count + analyzed.warning_count + neutral_count
            = Len(log_data)

C5_Witness ==
  /\ AnalysisDone
  /\ ErrorEntries \cap WarningEntries # {}
  /\ WarningEntries \ ErrorEntries # {}
  /\ analyzed.error_count = Cardinality(ErrorEntries)
  /\ analyzed.warning_count = Cardinality(WarningEntries \ ErrorEntries)

(* C6: a failure while handling a log group is caught for that group: the  *)
(* call returns normally, the failing group contributes no entry to the    *)
(* returned list, and the other groups' entries are returned.              *)
C6_FailingStreamContributesNothing ==
  pc = "fetched" =>
    /\ ~fetched.escaped
    /\ \A g \in 1..Len(fetched.failed) :
         \A i \in 1..Len(fetched.result) :
           fetched.result[i].log_group # fetched.failed[g]
    /\ \A g \in 1..Len(log_groups) :
         (env.clock_ok /\ ~InSeq(log_groups[g], fetched.failed)) =>
           LET r == env.store[log_groups[g]].response
               es == IF "events" \in DOMAIN r THEN r.events ELSE << >>
           IN Cardinality({ i \in 1..Len(fetched.all_logs) :
                              fetched.all_logs[i].log_group = log_groups[g] })
                = Len(es)

(* The entries of every log group's events, group after group, each       *)
(* group's in the order the store returned them.                           *)
RECURSIVE StoreEntries(_)
StoreEntries(g) ==
  IF g > Len(log_groups) THEN << >>
  ELSE LET r == env.store[log_groups[g]].response
           es == IF "events" \in DOMAIN r THEN r.events ELSE << >>
       IN [i \in 1..Len(es) |->
             [timestamp |-> es[i].timestamp, message |-> es[i].message,
              log_group |-> log_groups[g]]] \o StoreEntries(g + 1)

(* C7: fetch_recent_logs returns the last 30 entries of the list it built  *)
(* by appending every log group's entries in retrieval order (all of it    *)
(* when it holds 30 or fewer), in the same order, so at most 30;           *)
(* logs_analyzed of a success response is between 1 and 30.                *)
C7_LastThirtyInOrder ==
  /\ pc = "fetched" =>
       LET all == fetched.all_logs
           n == Len(log_data)
       IN /\ (env.clock_ok /\ fetched.failed = << >>) => all = StoreEntries(1)
          /\ n <= 30
          /\ n = IF Len(all) <= 30 THEN Len(all) ELSE 30
          /\ \A i \in 1..n : log_data[i] = all[Len(all) - n + i]
          /\ \A i \in 1..(n - 1) :
               log_data[i].log_group = log_data[i + 1].log_group
                 => log_data[i].timestamp < log_data[i + 1].timestamp
  /\ (pc = "done" /\ response.statusCode = 200 /\ response.body.encoding = "json") =>
       /\ response.body.content.logs_analyzed = Len(fetched.result)
       /\ response.body.content.logs_analyzed \in 1..30

C7_Witness ==
  /\ pc = "done"
  /\ response.statusCode = 200
  /\ Len(fetched.all_logs) > 30
  /\ response.body.content.logs_analyzed = 30
  /\ log_data[1] = fetched.all_logs[Len(fetched.all_logs) - 29]

(* C8: the recommendations list is never empty; it holds the error         *)
(* recommendation iff error_count > 0, the warning recommendation iff      *)
(* warning_count > 5 (after the error one when both are there), and is     *)
(* exactly the continue-monitoring entry iff error_count = 0 and           *)
(* warning_count <= 5.                                                     *)
C8_Recommendations ==
  AnalysisDone =>
    LET e == analyzed.error_count
        w == analyzed.warning_count
        r == analysis_result.recommendations
        review == "Review error logs for root cause analysis"
        address == "Address warning conditions to prevent issues"
        continue == "Continue monitoring - system appears stable"
    IN /\ Len(r) >= 1
       /\ InSeq(review, r) <=> e > 0
       /\ InSeq(address, r) <=> w > 5
       /\ (e > 0 /\ w > 5) => r = <<review, address>>
       /\ r = <<continue>> <=> (e = 0 /\ w <= 5)

C8_Witness ==
  /\ AnalysisDone
  /\ analyzed.error_count > 0
  /\ analyzed.warning_count = 6
  /\ Len(analysis_result.recommendations) = 2

(* C9: the steps run in the order fetch, analyze, publish, respond: when   *)
(* the fetch returns entries and the analysis completes, put_metric_data   *)
(* is called exactly once, after the analysis result exists and before     *)
(* the 200 response is built; it is never called before the fetch or the   *)
(* analysis, and never more than once.                                     *)
C9_PipelineOrder ==
  /\ Len(put_calls) <= 1
  /\ put_calls # << >> =>
       /\ Len(trace) >= 3
       /\ SubSeq(trace, 1, 3) = <<"fetch", "analyze", "publish">>
       /\ analysis_result.severity # "unset"
       /\ pc # "done" => response = NoResponse
  /\ (pc = "done" /\ log_data # << >> /\ ~analyzed.raised) =>
       /\ trace = <<"fetch", "analyze", "publish", "respond">>
       /\ Len(put_calls) = 1
       /\ response.statusCode = 200

C9_Witness ==
  /\ pc = "done"
  /\ trace = <<"fetch", "analyze", "publish", "respond">>
  /\ Len(put_calls) = 1
  /\ ~put_calls[1].raised

(* C10: in every batch store_metrics publishes, SeverityLevel is 1, 2 or 3 *)
(* and never 4, IssuesFound is 0 or 1, and IssuesFound is 0 exactly when   *)
(* SeverityLevel is 1.                                                     *)
C10_MetricValues ==
  \A i \in 1..Len(put_calls) :
    LET level == MetricValue(put_calls[i].batch, "SeverityLevel")
        found == MetricValue(put_calls[i].batch, "IssuesFound")
    IN /\ level \in {1, 2, 3}
       /\ found \in {0, 1}
       /\ found = 0 <=> level = 1

C10_Witness ==
  /\ put_calls # << >>
  /\ MetricValue(put_calls[1].batch, "SeverityLevel") = 2
  /\ MetricValue(put_calls[1].batch, "IssuesFound") = 1
  /\ analyzed.error_count <= 2
  /\ analyzed.warning_count > 10

====
